---- MODULE Spec2Model ----
(***************************************************************************)
(* A model of the mdbook-numthm preprocessor (src/src/lib.rs).             *)
(*                                                                         *)
(* NumThmPreprocessor::new reads the configuration, run makes two          *)
(* for_each_mut traversals of the book: the first numbers the environment  *)
(* markers of every non-draft chapter and fills the label registry, the    *)
(* second resolves the reference markers against it.                       *)
(*                                                                         *)
(* A chapter's content is a sequence of pieces: literal text, environment  *)
(* markers {{key}}{label}[title] and reference markers {{ref:...}} or      *)
(* {{tref:...}}.  Labels and the text of a reference marker are sequences  *)
(* of characters, paths are sequences of the segments between "/", and     *)
(* everything the program formats is an actual string.                     *)
(***************************************************************************)
EXTENDS Integers, Sequences, FiniteSets, TLC

VARIABLES
    pc,           \* "new", "number", "resolve", "done" or "panicked"
    config,       \* ctx.config: the two keys NumThmPreprocessor::new reads
    envs,         \* NumThmPreprocessor.envs
    with_prefix,  \* NumThmPreprocessor.with_prefix
    input,        \* the book as it was handed to run
    book,         \* the book being rewritten, chapters in for_each_mut order
    refs,         \* run's HashMap<String, LabelInfo>
    item,         \* the chapter the current traversal visits next
    log           \* the warn! messages emitted so far

vars == <<pc, config, envs, with_prefix, input, book, refs, item, log>>

(***************************************************************************)
(* Bounds of the model.                                                    *)
(***************************************************************************)
MaxChapters == 2   \* chapters of a book
MaxTokens == 2     \* markers and text pieces of a whole book
MaxDirs == 3       \* directory segments of a chapter path
MaxWs == 1         \* whitespace characters on each side of a reference label
MaxEntries == 2    \* entries of the custom_environments array
MaxEntryLen == 4   \* elements of one custom_environments entry

(***************************************************************************)
(* Option<T>, strings and small helpers.                                   *)
(***************************************************************************)
None == <<>>
Some(v) == <<v>>
IsSome(o) == o /= <<>>
Unwrap(o) == o[1]

RECURSIVE Str(_)
\* the string spelled by a sequence of characters
Str(cs) == IF cs = <<>> THEN "" ELSE Head(cs) \o Str(Tail(cs))

SeqsUpTo(S, n) == UNION {[1..k -> S] : k \in 0..n}

(***************************************************************************)
(* toml::Value, as far as NumThmPreprocessor::new looks at it.             *)
(***************************************************************************)
\* A scalar carries its value as toml writes it.
TString(s) == [ty |-> "String", s |-> s]
TBoolean(b) == [ty |-> "Boolean", s |-> IF b THEN "true" ELSE "false"]
TInteger(n) == [ty |-> "Integer", s |-> ToString(n)]
TArray(a) == [ty |-> "Array", v |-> a]

Env(key, name, emph) == [key |-> key, name |-> name, emph |-> emph]

\* impl Default for NumThmPreprocessor
DefaultEnvs ==
    << Env("thm", "Theorem", "**"),
       Env("lem", "Lemma", "**"),
       Env("prop", "Proposition", "**"),
       Env("def", "Definition", "**"),
       Env("rem", "Remark", "*") >>

DefaultWithPrefix == FALSE

\* if let Some(toml::Value::Boolean(b)) = ctx.config.get("preprocessor.numthm.prefix")
ReadPrefix(cfg) ==
    IF IsSome(cfg.prefix) /\ Unwrap(cfg.prefix).ty = "Boolean"
    THEN Unwrap(cfg.prefix).s = "true"
    ELSE DefaultWithPrefix

\* &env_params[0..3] is evaluated for every entry that is an array; the range
\* is out of bounds, and the slice expression panics, when the array is shorter
SlicePanics(entry) == entry.ty = "Array" /\ Len(entry.v) < 3

\* the slice pattern [String(key), String(name), String(emph)] on env_params[0..3]
EntryEnvs(entry) ==
    IF /\ entry.ty = "Array"
       /\ Len(entry.v) >= 3
       /\ \A i \in 1..3 : entry.v[i].ty = "String"
    THEN << Env(entry.v[1].s, entry.v[2].s, entry.v[3].s) >>
    ELSE <<>>

RECURSIVE PushCustom(_, _)
\* for array_entry in array { ... pre.envs.push(...) }
PushCustom(es, array) ==
    IF array = <<>> THEN es
    ELSE PushCustom(es \o EntryEnvs(Head(array)), Tail(array))

\* the custom_environments array new iterates over, empty when the key is
\* absent or not an array
CustomArray(cfg) ==
    IF IsSome(cfg.custom) /\ Unwrap(cfg.custom).ty = "Array"
    THEN Unwrap(cfg.custom).v
    ELSE <<>>

NewPanics(cfg) == \E i \in 1..Len(CustomArray(cfg)) : SlicePanics(CustomArray(cfg)[i])

NewEnvs(cfg) == PushCustom(DefaultEnvs, CustomArray(cfg))

(***************************************************************************)
(* Pieces of a chapter's content.                                          *)
(***************************************************************************)
Text(s) == [t |-> "text", s |-> s]
EnvMarker(key, label, title) == [t |-> "env", key |-> key, label |-> label, title |-> title]
RefMarker(reftype, raw) == [t |-> "ref", reftype |-> reftype, raw |-> raw]

Chapter(content, number, path) == [content |-> content, number |-> number, path |-> path]

\* Chapter::is_draft_chapter
IsDraft(ch) == ch.path = None

(***************************************************************************)
(* find_and_replace_envs                                                   *)
(***************************************************************************)
\* let mut ctr = 0;
CtrInit == 0

\* the pattern \{\{key\}\}(\{(?P<label>.*?)\})?(\[(?P<title>.*?)\])?
EnvMatches(tok, env) == tok.t = "env" /\ tok.key = env.key

\* format!("{name} {prefix}{ctr}")
NumName(env, prefix, ctr) == env.name \o " " \o prefix \o ToString(ctr)

LabelInfo(num_name, path, title) == [num_name |-> num_name, path |-> path, title |-> title]

\* warn!("{name} {prefix}{ctr}: Label ?{label}' already used"), where ? is a
\* backquote: a TLA+ string cannot hold one, and an apostrophe stands for it
DuplicateWarning(env, prefix, ctr, label) ==
    NumName(env, prefix, ctr) \o ": Label '" \o Str(label) \o "' already used"

\* an insert that overwrites the entry of a label already used
RegisterOverwriting(r, label, info) == (label :> info) @@ r

\* if refs.contains_key(&label) { warn!(..) } else { refs.insert(..) }
Register(r, label, info) ==
    IF label \in DOMAIN r THEN r ELSE (label :> info) @@ r

\* format!("<a name=\"{label}\"></a>\n"), or String::new() without a label
Anchor(label) ==
    IF IsSome(label) THEN "<a name=\"" \o Str(Unwrap(label)) \o "\"></a>\n" ELSE ""

\* a header that leaves the title out
HeaderWithoutTitle(env, prefix, ctr, title) ==
    env.emph \o env.name \o " " \o prefix \o ToString(ctr) \o "." \o env.emph

\* format!("{emph}{name} {prefix}{ctr} ({title}).{emph}") or, without a title,
\* format!("{emph}{name} {prefix}{ctr}.{emph}")
Header(env, prefix, ctr, title) ==
    IF IsSome(title)
    THEN env.emph \o env.name \o " " \o prefix \o ToString(ctr)
             \o " (" \o Unwrap(title) \o ")." \o env.emph
    ELSE env.emph \o env.name \o " " \o prefix \o ToString(ctr) \o "." \o env.emph

\* a counter that is never incremented
IncrForgotten(ctr) == ctr

\* ctr += 1
Incr(ctr) == ctr + 1

\* the closure of re.replace_all, on one piece of the content
EnvStep(st, tok, prefix, path, env) ==
    IF ~EnvMatches(tok, env) THEN [st EXCEPT !.out = Append(@, tok)]
    ELSE LET ctr == Incr(st.ctr)
             dup == IsSome(tok.label) /\ Unwrap(tok.label) \in DOMAIN st.refs
             info == LabelInfo(NumName(env, prefix, ctr), path, tok.title)
         IN  [out |-> Append(st.out, Text(Anchor(tok.label) \o Header(env, prefix, ctr, tok.title))),
              refs |-> IF IsSome(tok.label)
                       THEN Register(st.refs, Unwrap(tok.label), info)
                       ELSE st.refs,
              log |-> IF dup
                      THEN Append(st.log, DuplicateWarning(env, prefix, ctr, Unwrap(tok.label)))
                      ELSE st.log,
              ctr |-> ctr]

RECURSIVE EnvScan(_, _, _, _, _)
EnvScan(st, s, prefix, path, env) ==
    IF s = <<>> THEN st
    ELSE EnvScan(EnvStep(st, Head(s), prefix, path, env), Tail(s), prefix, path, env)

\* find_and_replace_envs(s, prefix, path, env, refs): the new content, the
\* registry and the log after it
FindAndReplaceEnvs(s, prefix, path, env, r, lg) ==
    EnvScan([out |-> <<>>, refs |-> r, log |-> lg, ctr |-> CtrInit], s, prefix, path, env)

(***************************************************************************)
(* compute_rel_path and pathdiff::diff_paths                               *)
(***************************************************************************)
RECURSIVE DropEmpty(_)
DropEmpty(p) ==
    IF p = <<>> THEN <<>>
    ELSE IF Head(p) = "" THEN DropEmpty(Tail(p))
    ELSE <<Head(p)>> \o DropEmpty(Tail(p))

RECURSIVE DropCurDir(_)
DropCurDir(p) ==
    IF p = <<>> THEN <<>>
    ELSE IF Head(p) = "." THEN DropCurDir(Tail(p))
    ELSE <<Head(p)>> \o DropCurDir(Tail(p))

\* Path::components of a relative path: repeated separators and every "."
\* but a leading one are dropped
Components(p) ==
    LET q == DropEmpty(p)
    IN  IF q = <<>> THEN <<>>
        ELSE <<Head(q)>> \o DropCurDir(Tail(q))

\* PathBuf's ==, which compares components
PathEq(p, q) == Components(p) = Components(q)

\* PathBuf::pop: the path without its last component
Pop(p) ==
    LET c == Components(p)
    IN  IF c = <<>> THEN <<>> ELSE SubSeq(c, 1, Len(c) - 1)

ParentDirs(n) == [i \in 1..n |-> ".."]

RECURSIVE DiffLoop(_, _, _)
\* the loop of pathdiff's diff_paths over the two component iterators; None
\* when the base holds a ".." the path does not share
DiffLoop(ita, itb, comps) ==
    IF ita = <<>> /\ itb = <<>> THEN Some(comps)
    ELSE IF itb = <<>> THEN Some(comps \o ita)
    ELSE IF ita = <<>> THEN DiffLoop(<<>>, Tail(itb), Append(comps, ".."))
    ELSE IF comps = <<>> /\ Head(ita) = Head(itb) THEN DiffLoop(Tail(ita), Tail(itb), comps)
    ELSE IF Head(itb) = "." THEN DiffLoop(Tail(ita), Tail(itb), Append(comps, Head(ita)))
    ELSE IF Head(itb) = ".." THEN None
    ELSE Some(comps \o ParentDirs(Len(itb)) \o ita)

\* diff_paths(path, base) of two relative paths
DiffPaths(path, base) == DiffLoop(Components(path), Components(base), <<>>)

RECURSIVE Display(_)
\* Path::display of the collected components
Display(c) ==
    IF c = <<>> THEN ""
    ELSE IF Len(c) = 1 THEN c[1]
    ELSE Head(c) \o "/" \o Display(Tail(c))

\* a base that is the chapter's path itself, nothing popped
RelBaseUnpopped(chap_path) == Components(chap_path)

\* the base of the relative path: chap_path.clone() with pop()
RelBase(chap_path) == Pop(chap_path)

\* compute_rel_path panics when diff_paths returns None (unwrap)
RelPathPanics(chap_path, path_to_ref) ==
    ~PathEq(chap_path, path_to_ref) /\ DiffPaths(path_to_ref, RelBase(chap_path)) = None

ComputeRelPath(chap_path, path_to_ref) ==
    IF PathEq(chap_path, path_to_ref) THEN ""
    ELSE Display(Unwrap(DiffPaths(path_to_ref, RelBase(chap_path))))

(***************************************************************************)
(* find_and_replace_refs                                                   *)
(***************************************************************************)
\* \s, of which the blank, the line feed and the tab are the ones modelled
Whitespace == {" ", "\n", "\t"}

RECURSIVE SkipWs(_)
\* \s* in front of the label group, greedy
SkipWs(raw) ==
    IF raw /= <<>> /\ Head(raw) \in Whitespace THEN SkipWs(Tail(raw)) ELSE raw

\* a label group that starts right after the keyword
RefLabelUntrimmed(raw) == raw

\* (?P<label>.*?): what is left of the marker's text up to the closing braces
RefLabel(raw) == SkipWs(raw)

\* "." matches no line feed, so a marker whose label would hold one is no match
RefMatches(tok) ==
    tok.t = "ref" /\ \A i \in 1..Len(RefLabel(tok.raw)) : RefLabel(tok.raw)[i] /= "\n"

\* a display text that is the numbered name whatever the keyword
RefTextNumbered(info, reftype) == info.num_name

\* the display text: num_name for ref:, the title or else num_name for tref:
RefText(info, reftype) ==
    IF reftype = "ref:" THEN info.num_name
    ELSE IF IsSome(info.title) THEN Unwrap(info.title)
    ELSE info.num_name

\* format!("[{text}]({rel_path}#{label})")
Link(text, rel_path, label) == "[" \o text \o "](" \o rel_path \o "#" \o Str(label) \o ")"

\* a placeholder that is not bold
PlaceholderPlain == "[??]"

\* "**[??]**".to_string()
Placeholder == "**[??]**"

\* warn!("Unknown reference: {}", label)
UnknownWarning(label) == "Unknown reference: " \o Str(label)

\* the closure of re.replace_all, on one piece of the content
RefStep(st, tok, chap_path, r) ==
    IF ~RefMatches(tok) THEN [st EXCEPT !.out = Append(@, tok)]
    ELSE LET label == RefLabel(tok.raw)
         IN  IF label \in DOMAIN r
             THEN IF RelPathPanics(chap_path, r[label].path)
                  THEN [st EXCEPT !.panic = TRUE]
                  ELSE [st EXCEPT !.out = Append(@,
                           Text(Link(RefText(r[label], tok.reftype),
                                     ComputeRelPath(chap_path, r[label].path),
                                     label)))]
             ELSE [st EXCEPT !.out = Append(@, Text(Placeholder)),
                             !.log = Append(@, UnknownWarning(label))]

RECURSIVE RefScan(_, _, _, _)
RefScan(st, s, chap_path, r) ==
    IF s = <<>> \/ st.panic THEN st
    ELSE RefScan(RefStep(st, Head(s), chap_path, r), Tail(s), chap_path, r)

\* find_and_replace_refs(s, chap_path, refs)
FindAndReplaceRefs(s, chap_path, r, lg) ==
    RefScan([out |-> <<>>, log |-> lg, panic |-> FALSE], s, chap_path, r)

(***************************************************************************)
(* NumThmPreprocessor::run                                                 *)
(***************************************************************************)
\* the prefix of a chapter: its section number when with_prefix is set
Prefix(ch, wp) ==
    IF wp /\ IsSome(ch.number) THEN Unwrap(ch.number) ELSE ""

RECURSIVE SharedCounterEnvs(_, _, _, _, _)
SharedCounterEnvs(st, ctr, es, prefix, path) ==
    IF es = <<>> THEN st
    ELSE LET nx == EnvScan([out |-> <<>>, refs |-> st.refs, log |-> st.log, ctr |-> ctr],
                           st.out, prefix, path, Head(es))
         IN  SharedCounterEnvs(nx, nx.ctr, Tail(es), prefix, path)

\* one counter for all the kinds of a chapter instead of one per kind
NumberEnvsSharedCounter(st, es, prefix, path) ==
    SharedCounterEnvs(st, CtrInit, es, prefix, path)

RECURSIVE NumberEnvs(_, _, _, _)
\* for env in &self.envs { chapter.content = find_and_replace_envs(..) }
NumberEnvs(st, es, prefix, path) ==
    IF es = <<>> THEN st
    ELSE NumberEnvs(FindAndReplaceEnvs(st.out, prefix, path, Head(es), st.refs, st.log),
                    Tail(es), prefix, path)

\* a single pass: the chapter's references resolved as soon as it is numbered
NumberClosureResolving(ch, es, wp, r, lg) ==
    IF IsDraft(ch) THEN [out |-> ch.content, refs |-> r, log |-> lg]
    ELSE LET st == NumberEnvs([out |-> ch.content, refs |-> r, log |-> lg],
                              es, Prefix(ch, wp), Unwrap(ch.path))
             rs == FindAndReplaceRefs(st.out, Unwrap(ch.path), st.refs, st.log)
         IN  [out |-> rs.out, refs |-> st.refs, log |-> rs.log]

\* the first closure of run on one chapter
NumberClosure(ch, es, wp, r, lg) ==
    IF IsDraft(ch) THEN [out |-> ch.content, refs |-> r, log |-> lg]
    ELSE NumberEnvs([out |-> ch.content, refs |-> r, log |-> lg],
                    es, Prefix(ch, wp), Unwrap(ch.path))

\* the second closure of run on one chapter
ResolveClosure(ch, r, lg) ==
    IF IsDraft(ch) THEN [out |-> ch.content, log |-> lg, panic |-> FALSE]
    ELSE FindAndReplaceRefs(ch.content, Unwrap(ch.path), r, lg)

\* NumThmPreprocessor::new(ctx)
New ==
    /\ pc = "new"
    /\ IF NewPanics(config)
       THEN /\ pc' = "panicked"
            /\ UNCHANGED <<envs, with_prefix>>
       ELSE /\ pc' = "number"
            /\ envs' = NewEnvs(config)
            /\ with_prefix' = ReadPrefix(config)
    /\ UNCHANGED <<config, input, book, refs, item, log>>

\* the first book.for_each_mut, one chapter at a time
NumberChapter ==
    /\ pc = "number"
    /\ LET res == NumberClosure(book[item], envs, with_prefix, refs, log)
       IN  /\ book' = [book EXCEPT ![item].content = res.out]
           /\ refs' = res.refs
           /\ log' = res.log
    /\ IF item < Len(book)
       THEN item' = item + 1 /\ pc' = "number"
       ELSE item' = 1 /\ pc' = "resolve"
    /\ UNCHANGED <<config, envs, with_prefix, input>>

\* the second book.for_each_mut, one chapter at a time, and Ok(book)
ResolveChapter ==
    /\ pc = "resolve"
    /\ LET res == ResolveClosure(book[item], refs, log)
       IN  IF res.panic
           THEN /\ pc' = "panicked"
                /\ UNCHANGED <<book, log, item>>
           ELSE /\ book' = [book EXCEPT ![item].content = res.out]
                /\ log' = res.log
                /\ IF item < Len(book)
                   THEN item' = item + 1 /\ pc' = "resolve"
                   ELSE item' = 1 /\ pc' = "done"
    /\ UNCHANGED <<config, envs, with_prefix, input, refs>>

Next == New \/ NumberChapter \/ ResolveChapter

RECURSIVE NumberAll(_, _, _, _, _)
\* the first traversal as a whole, from chapter i on
NumberAll(bk, i, es, wp, st) ==
    IF i > Len(bk) THEN [book |-> bk, refs |-> st.refs, log |-> st.log]
    ELSE LET res == NumberClosure(bk[i], es, wp, st.refs, st.log)
         IN  NumberAll([bk EXCEPT ![i].content = res.out], i + 1, es, wp, res)

RECURSIVE ResolveAll(_, _, _, _)
\* the second traversal as a whole, from chapter i on
ResolveAll(bk, i, r, lg) ==
    IF i > Len(bk) THEN [book |-> bk, refs |-> r, log |-> lg]
    ELSE LET res == ResolveClosure(bk[i], r, lg)
         IN  ResolveAll([bk EXCEPT ![i].content = res.out], i + 1, r, res.log)

\* run(ctx, book) of a preprocessor whose environment list is es
Run(bk, es, wp) ==
    LET n == NumberAll(bk, 1, es, wp, [refs |-> <<>>, log |-> <<>>])
    IN  ResolveAll(n.book, 1, n.refs, n.log)

(***************************************************************************)
(* Inputs.                                                                 *)
(***************************************************************************)
\* the books of n chapters made of a sequence of at most k pieces of Tokens
\* cut into chapters, chapter i being one of Variants(i)
NonDecreasing(f, n) == \A i \in 1..n - 1 : f[i] <= f[i + 1]

ContentOf(toks, at, c) ==
    LET idx == {i \in 1..Len(toks) : at[i] = c}
        RECURSIVE Pick(_)
        Pick(i) == IF i > Len(toks) THEN <<>>
                   ELSE IF i \in idx THEN <<toks[i]>> \o Pick(i + 1)
                   ELSE Pick(i + 1)
    IN  Pick(1)

Contents(Tokens, n, k) ==
    { [c \in 1..n |-> ContentOf(toks, at, c)] :
        <<toks, at>> \in { <<t, a>> \in UNION { [1..j -> Tokens] \X [1..j -> 1..n] : j \in 0..k }
                              : NonDecreasing(a, Len(t)) } }

\* a chapter's section number, as SectionNumber's Display writes it
SectionNumber(i) == ToString(i) \o "."

\* the path of chapter i where the paths are not what is looked at
ChapterPath(i) == <<"d" \o ToString(i), "c.md">>

Numbered(i) == [number |-> Some(SectionNumber(i)), path |-> Some(ChapterPath(i))]
Unnumbered(i) == [number |-> None, path |-> Some(ChapterPath(i))]
Draft(i) == [number |-> Some(SectionNumber(i)), path |-> None]

Books(Tokens, Shapes(_), n, k) ==
    { [c \in 1..n |-> Chapter(cs[c], sh[c].number, sh[c].path)] :
        <<cs, sh>> \in Contents(Tokens, n, k)
                       \X { s \in [1..n -> UNION {Shapes(i) : i \in 1..n}] :
                              \A i \in 1..n : s[i] \in Shapes(i) } }

CfgPlain == [prefix |-> None, custom |-> None]
CfgCustom ==
    [prefix |-> Some(TBoolean(TRUE)),
     custom |-> Some(TArray(<< TArray(<<TString("exa"), TString("Example"), TString("*")>>) >>))]

InitWith(BookSet, ConfigSet) ==
    /\ pc = "new"
    /\ config \in ConfigSet
    /\ envs = DefaultEnvs
    /\ with_prefix = DefaultWithPrefix
    /\ input \in BookSet
    /\ book = input
    /\ refs = <<>>
    /\ item = 1
    /\ log = <<>>

\* numbering: environment markers of two built-in kinds and a custom one
NumTokens ==
    { EnvMarker("thm", None, None),
      EnvMarker("thm", Some(<<"x">>), None),
      EnvMarker("lem", Some(<<"x">>), Some("T")),
      EnvMarker("lem", None, Some("U")),
      EnvMarker("exa", Some(<<"y">>), None) }

\* the first chapter may be an unnumbered prefix chapter
NumShapes(i) == {Numbered(i), Draft(i)} \cup (IF i = 1 THEN {Unnumbered(i)} ELSE {})

Init == InitWith(Books(NumTokens, NumShapes, MaxChapters, MaxTokens), {CfgPlain, CfgCustom})

Spec == Init /\ [][Next]_vars

(***************************************************************************)
(* What the claims speak about.                                            *)
(***************************************************************************)
\* the chapters the numbering traversal has visited
NumberedChapters ==
    IF pc = "number" THEN 1..(item - 1)
    ELSE IF pc \in {"resolve", "done"} THEN 1..Len(input)
    ELSE {}

\* the chapters the resolving traversal has visited
ResolvedChapters ==
    IF pc = "resolve" THEN 1..(item - 1)
    ELSE IF pc = "done" THEN 1..Len(input)
    ELSE {}

Configured(key) == \E i \in 1..Len(envs) : envs[i].key = key
EnvIdx(key) == CHOOSE i \in 1..Len(envs) :
                   envs[i].key = key /\ \A j \in 1..(i - 1) : envs[j].key /= key
EnvOf(key) == envs[EnvIdx(key)]

Tok(m) == input[m[1]].content[m[2]]

\* the environment markers of the non-draft chapters whose kind is configured
Markers ==
    { m \in UNION { {c} \X (1..Len(input[c].content)) : c \in 1..Len(input) } :
        /\ ~IsDraft(input[m[1]])
        /\ Tok(m).t = "env"
        /\ Configured(Tok(m).key) }

Processed == { m \in Markers : m[1] \in NumberedChapters }
Labelled(S) == { m \in S : Tok(m).label /= None }
LabelOf(m) == Tok(m).label[1]

\* the markers of m's kind up to and including m, in m's chapter
CountInChapter(m) ==
    Cardinality({ q \in Markers : q[1] = m[1] /\ q[2] <= m[2] /\ Tok(q).key = Tok(m).key })

\* the markers of m's kind up to and including m, in the whole tree
CountInTree(m) ==
    Cardinality({ q \in Markers :
        /\ Tok(q).key = Tok(m).key
        /\ q[1] < m[1] \/ (q[1] = m[1] /\ q[2] <= m[2]) })

PrefixOf(c) ==
    IF with_prefix /\ input[c].number /= None THEN input[c].number[1] ELSE ""

\* the order in which the numbering pass matches the markers: chapter by
\* chapter, in a chapter kind by kind, for a kind left to right
Before(m, q) ==
    \/ m[1] < q[1]
    \/ /\ m[1] = q[1]
       /\ \/ EnvIdx(Tok(m).key) < EnvIdx(Tok(q).key)
          \/ Tok(m).key = Tok(q).key /\ m[2] < q[2]

FirstWith(label) ==
    CHOOSE m \in Labelled(Markers) :
        /\ LabelOf(m) = label
        /\ \A q \in Labelled(Markers) : LabelOf(q) = label => (q = m \/ Before(m, q))

IsFirst(m) == FirstWith(LabelOf(m)) = m

LogSet == { log[i] : i \in 1..Len(log) }

(***************************************************************************)
(* C1  Numbering.                                                          *)
(***************************************************************************)
RenderedWith(m, n) ==
    book[m[1]].content[m[2]] =
        Text(Anchor(Tok(m).label) \o Header(EnvOf(Tok(m).key), PrefixOf(m[1]), n, Tok(m).title))

ExpectedInfo(m) ==
    [num_name |-> EnvOf(Tok(m).key).name \o " " \o PrefixOf(m[1]) \o ToString(CountInChapter(m)),
     path |-> input[m[1]].path[1],
     title |-> Tok(m).title]

ExpectedWarning(m) ==
    EnvOf(Tok(m).key).name \o " " \o PrefixOf(m[1]) \o ToString(CountInChapter(m))
        \o ": Label '" \o Str(LabelOf(m)) \o "' already used"

C2_State ==
    /\ \A m \in Labelled(Processed) :
          /\ RenderedWith(m, CountInChapter(m))
          /\ LabelOf(m) \in DOMAIN refs
          /\ refs[LabelOf(m)] = ExpectedInfo(FirstWith(LabelOf(m)))
          /\ ~IsFirst(m) => ExpectedWarning(m) \in LogSet
    /\ DOMAIN refs = { LabelOf(m) : m \in Labelled(Processed) }
    /\ pc = "number" \/ (pc = "resolve" /\ item = 1) =>
          Len(log) = Cardinality(Labelled(Processed)) - Cardinality(DOMAIN refs)

C2_Step == \A l \in DOMAIN refs : l \in DOMAIN refs' /\ refs'[l] = refs[l]

\* C2: a labeled marker whose label is already registered leaves the registry
\* as it was and emits the duplicate-label warning, while it is still numbered
\* and rendered with its anchor; a first-seen label adds exactly one entry;
\* no entry is ever modified or removed afterwards.
C2_FirstRegistrationWins == []C2_State /\ [][C2_Step]_vars

\* numbering is over and two markers of the run carried the same label
C2_Witness ==
    /\ pc = "resolve"
    /\ \E m \in Labelled(Processed) :
          /\ m[1] > FirstWith(LabelOf(m))[1]
          /\ Tok(m).title /= Tok(FirstWith(LabelOf(m))).title

(***************************************************************************)
(* C8  Rendering of one declaration marker.                                *)
(***************************************************************************)
C8_Text(m) ==
    LET tok == Tok(m)
        env == EnvOf(tok.key)
    IN  (IF tok.label /= None THEN "<a name=\"" \o Str(tok.label[1]) \o "\"></a>" \o "\n" ELSE "")
        \o env.emph \o env.name \o " " \o PrefixOf(m[1]) \o ToString(CountInChapter(m))
        \o (IF tok.title /= None THEN " (" \o tok.title[1] \o ")" ELSE "")
        \o "." \o env.emph

\* C8: a marker is replaced by (anchor line, iff labeled) + emph + name + " "
\* + prefix + counter + (" (title)", iff titled) + "." + emph; unlabeled
\* markers add nothing to the registry and a first-seen label adds
\* label -> (numbered name, chapter path, title or none).
C8_Rendering ==
    /\ \A m \in Processed : book[m[1]].content[m[2]] = [t |-> "text", s |-> C8_Text(m)]
    /\ DOMAIN refs = { LabelOf(m) : m \in Labelled(Processed) }
    /\ \A m \in Labelled(Processed) : IsFirst(m) => refs[LabelOf(m)] = ExpectedInfo(m)

\* all four combinations of label and title have been rendered
C8_Witness ==
    /\ pc = "done"
    /\ with_prefix
    /\ \E m \in Processed : Tok(m).label /= None /\ Tok(m).title /= None
    /\ \E m \in Processed : Tok(m).label = None /\ Tok(m).title /= None

(***************************************************************************)
(* References: declarations of two labels, one of a kind that only the     *)
(* custom configuration knows, and references to them.                     *)
(***************************************************************************)
RefTokens ==
    { EnvMarker("thm", Some(<<"x">>), None),
      EnvMarker("thm", Some(<<"x">>), Some("T")),
      EnvMarker("exa", Some(<<"y">>), None),
      RefMarker("ref:", <<"x">>),
      RefMarker("tref:", <<"x">>),
      RefMarker("ref:", <<"y">>) }

RefShapes(i) == {Numbered(i), Draft(i)}

InitRefs == InitWith(Books(RefTokens, RefShapes, MaxChapters, MaxTokens), {CfgPlain, CfgCustom})

SpecRefs == InitRefs /\ [][Next]_vars

\* the reference markers of the non-draft chapters
Refs ==
    { r \in UNION { {c} \X (1..Len(input[c].content)) : c \in 1..Len(input) } :
        ~IsDraft(input[r[1]]) /\ RefMatches(Tok(r)) }

Resolved == { r \in Refs : r[1] \in ResolvedChapters }
Now(r) == book[r[1]].content[r[2]]
LookedUp(r) == RefLabel(Tok(r).raw)
Declared(label) == \E m \in Labelled(Markers) : LabelOf(m) = label

(***************************************************************************)
(* C3  Phase separation.                                                   *)
(***************************************************************************)
C3_State ==
    /\ (\E r \in Refs : Now(r) /= Tok(r)) => \A m \in Markers : Now(m) /= Tok(m)
    /\ pc = "done" =>
          \A r \in Refs : \A m \in Labelled(Markers) :
              LabelOf(m) = LookedUp(r) /\ m[1] > r[1] =>
                  /\ Now(r) /= Text(Placeholder)
                  /\ Now(r) = Text(Link(RefText(refs[LookedUp(r)], Tok(r).reftype),
                                         ComputeRelPath(input[r[1]].path[1], refs[LookedUp(r)].path),
                                         LookedUp(r)))

C3_Step == pc \in {"resolve", "done"} => refs' = refs

\* C3: no reference of any chapter is resolved before every marker of every
\* non-draft chapter is numbered, the registry is not written once resolving
\* has started, and a reference resolves against a label of a later chapter.
C3_PhaseSeparation == []C3_State /\ [][C3_Step]_vars

\* a reference was resolved against a label declared only in a later chapter
C3_Witness ==
    /\ pc = "done"
    /\ \E r \in Refs :
          /\ Declared(LookedUp(r))
          /\ FirstWith(LookedUp(r))[1] > r[1]

(***************************************************************************)
(* C4  Declare-then-reference round trip.                                  *)
(***************************************************************************)
C4_Display(r) ==
    LET d == FirstWith(LookedUp(r))
        numbered == EnvOf(Tok(d).key).name \o " " \o PrefixOf(d[1]) \o ToString(CountInChapter(d))
    IN  IF Tok(r).reftype = "ref:" THEN numbered
        ELSE IF Tok(d).title /= None THEN Tok(d).title[1]
        ELSE numbered

\* C4: a reference to a registered label becomes a link whose text is the
\* numbered name of the declaration for ref:, and for tref: the declared title
\* or, without one, the numbered name.
C4_RoundTrip ==
    \A r \in Resolved :
        LookedUp(r) \in DOMAIN refs =>
            Now(r) = Text("[" \o C4_Display(r) \o "]("
                          \o ComputeRelPath(input[r[1]].path[1], refs[LookedUp(r)].path)
                          \o "#" \o Str(LookedUp(r)) \o ")")

\* a title reference to a titled declaration has been resolved
C4_Witness ==
    /\ pc = "done"
    /\ with_prefix
    /\ \E r \in Resolved :
          /\ Tok(r).reftype = "tref:"
          /\ LookedUp(r) \in DOMAIN refs
          /\ refs[LookedUp(r)].title /= None

(***************************************************************************)
(* C6  Unresolved references.                                              *)
(***************************************************************************)
\* C6: a reference becomes **[??]**, with a warning, exactly when no labeled
\* marker of a non-draft chapter declares its label, wherever that chapter
\* is; the run does not abort and every reference of every chapter is
\* replaced.
C6_Unresolved ==
    /\ \A r \in Resolved :
          /\ Now(r) = Text("**[??]**") <=> ~Declared(LookedUp(r))
          /\ ~Declared(LookedUp(r)) => ("Unknown reference: " \o Str(LookedUp(r))) \in LogSet
    /\ pc = "panicked" => NewPanics(config)
    /\ pc = "done" => \A r \in Refs : Now(r) /= Tok(r)

\* a placeholder stands for a label that only a draft chapter or a marker of
\* an unknown kind declares
C6_Witness ==
    /\ pc = "done"
    /\ \E r \in Resolved :
          /\ Now(r) = Text("**[??]**")
          /\ \E c \in 1..Len(input) : \E p \in 1..Len(input[c].content) :
                /\ input[c].content[p].t = "env"
                /\ input[c].content[p].label = Some(LookedUp(r))

(***************************************************************************)
(* Whitespace in reference markers: one chapter declares one or two labels *)
(* spelled with and without blanks, the next one refers to "x" with        *)
(* whitespace on either side.                                              *)
(***************************************************************************)
WsLabels == { <<"x">>, <<"x", " ">>, <<" ", "x">> }
WsPads == SeqsUpTo({" ", "\n"}, MaxWs)

WsBooks ==
    { << Chapter([i \in 1..Len(ls) |-> EnvMarker("thm", Some(ls[i]), Some("T"))],
                 Some(SectionNumber(1)), Some(ChapterPath(1))),
         Chapter(<< Text("see "), RefMarker(rt, pre \o <<"x">> \o post) >>,
                 Some(SectionNumber(2)), Some(ChapterPath(2))) >> :
        <<ls, rt, pre, post>> \in
            ([1..1 -> WsLabels] \cup [1..2 -> WsLabels]) \X {"ref:", "tref:"} \X WsPads \X WsPads }

InitWs == InitWith(WsBooks, {CfgPlain})

SpecWs == InitWs /\ [][Next]_vars

\* every reference marker of a non-draft chapter, whatever its label
AllRefs ==
    { r \in UNION { {c} \X (1..Len(input[c].content)) : c \in 1..Len(input) } :
        ~IsDraft(input[r[1]]) /\ Tok(r).t = "ref" }

Blank == {" ", "\n", "\t"}

\* raw is label with whitespace, and nothing else, before and after it
Padded(raw, label) ==
    \E i \in 0..Len(raw) : \E j \in i..Len(raw) :
        /\ SubSeq(raw, i + 1, j) = label
        /\ \A k \in 1..i : raw[k] \in Blank
        /\ \A k \in (j + 1)..Len(raw) : raw[k] \in Blank

\* raw without the whitespace it starts with
AfterBlanks(raw) ==
    LET n == CHOOSE i \in 0..Len(raw) :
                 /\ \A k \in 1..i : raw[k] \in Blank
                 /\ i < Len(raw) => raw[i + 1] \notin Blank
    IN  SubSeq(raw, n + 1, Len(raw))

LinkTo(r, label) ==
    Text(Link(RefText(refs[label], Tok(r).reftype),
              ComputeRelPath(input[r[1]].path[1], refs[label].path),
              label))

(***************************************************************************)
(* C7  Whitespace around the label of a reference.                         *)
(***************************************************************************)
\* C7 as stated: a reference marker holding a registered label L with
\* whitespace before and/or after it resolves to the link of L.
C7_Trimmed ==
    \A r \in AllRefs : r[1] \in ResolvedChapters =>
        \A l \in DOMAIN refs : Padded(Tok(r).raw, l) => Now(r) = LinkTo(r, l)

\* C7 as amended: only the whitespace before the label is skipped.  The label
\* looked up is the marker's text without its leading whitespace, trailing
\* whitespace included; a marker whose label would hold a line feed is left
\* as it is.
C7_LeadingTrimmed ==
    \A r \in AllRefs : r[1] \in ResolvedChapters =>
        LET label == AfterBlanks(Tok(r).raw)
        IN  IF \E k \in 1..Len(label) : label[k] = "\n" THEN Now(r) = Tok(r)
            ELSE IF label \in DOMAIN refs THEN Now(r) = LinkTo(r, label)
            ELSE Now(r) = Text("**[??]**")

\* a marker with whitespace before a registered label has become its link,
\* and the registry also holds a label that ends with a blank
C7_Witness ==
    /\ pc = "done"
    /\ <<"x", " ">> \in DOMAIN refs
    /\ <<"x">> \in DOMAIN refs
    /\ \E r \in AllRefs :
          /\ Tok(r).raw[1] \in Blank
          /\ AfterBlanks(Tok(r).raw) = <<"x">>
          /\ Now(r) = LinkTo(r, <<"x">>)

(***************************************************************************)
(* Paths: a forward reference from a first chapter and a reference inside  *)
(* the declaring chapter, for every pair of chapter paths.                 *)
(***************************************************************************)
DirSegments == {"a", "b", ""}
FileNames == {"f.md", "g.md"}

\* relative paths "dir/dir/file", with repeated separators, without a leading one
ChapterPaths ==
    { dirs \o <<f>> :
        <<dirs, f>> \in { d \in SeqsUpTo(DirSegments, MaxDirs) : d = <<>> \/ d[1] /= "" } \X FileNames }

PathBooks ==
    { << Chapter(<< RefMarker("ref:", <<"x">>) >>, Some(SectionNumber(1)), Some(p[1])),
         Chapter(<< EnvMarker("thm", Some(<<"x">>), None), Text("see "), RefMarker("tref:", <<"x">>) >>,
                 Some(SectionNumber(2)), Some(p[2])) >> :
        p \in ChapterPaths \X ChapterPaths }

InitPaths == InitWith(PathBooks, {CfgPlain})

SpecPaths == InitPaths /\ [][Next]_vars

RECURSIVE Segments(_)
\* the segments of a path, redundant separators ignored
Segments(p) ==
    IF p = <<>> THEN <<>>
    ELSE IF Head(p) = "" THEN Segments(Tail(p))
    ELSE <<Head(p)>> \o Segments(Tail(p))

DirsOf(p) == SubSeq(Segments(p), 1, Len(Segments(p)) - 1)

CommonLen(a, b) ==
    CHOOSE k \in 0..Len(a) :
        /\ k <= Len(b)
        /\ \A i \in 1..k : a[i] = b[i]
        /\ k = Len(a) \/ k = Len(b) \/ a[k + 1] /= b[k + 1]

C5_Segments(from, to) ==
    LET k == CommonLen(DirsOf(from), Segments(to))
    IN  [i \in 1..(Len(DirsOf(from)) - k) |-> ".."] \o SubSeq(Segments(to), k + 1, Len(Segments(to)))

RECURSIVE Slashed(_)
Slashed(c) ==
    IF c = <<>> THEN ""
    ELSE IF Tail(c) = <<>> THEN Head(c)
    ELSE Head(c) \o "/" \o Slashed(Tail(c))

C5_Path(from, to) ==
    IF Segments(from) = Segments(to) THEN "" ELSE Slashed(C5_Segments(from, to))

DefiningPath(label) == input[FirstWith(label)[1]].path[1]

(***************************************************************************)
(* C5  Link target.                                                        *)
(***************************************************************************)
\* C5: the target of a resolved reference is the relative path + "#" + label;
\* the path is empty for equal chapter paths, and otherwise drops the leading
\* directories the two paths share, goes up once per remaining directory of
\* the referencing path and down the rest of the defining path.
C5_LinkTarget ==
    \A r \in Resolved :
        LookedUp(r) \in DOMAIN refs =>
            Now(r) = Text("[" \o RefText(refs[LookedUp(r)], Tok(r).reftype) \o "]("
                          \o C5_Path(input[r[1]].path[1], DefiningPath(LookedUp(r)))
                          \o "#" \o Str(LookedUp(r)) \o ")")

\* a link across chapters whose referencing path repeats a separator, shares
\* a directory with the defining path and has one more to climb out of
C5_Witness ==
    /\ pc = "done"
    /\ \E r \in Resolved :
          LET from == input[r[1]].path[1]
              to == DefiningPath(LookedUp(r))
          IN  /\ \E i \in 1..Len(from) : from[i] = ""
              /\ CommonLen(DirsOf(from), Segments(to)) >= 1
              /\ Len(DirsOf(from)) > CommonLen(DirsOf(from), Segments(to))
              /\ Len(Segments(to)) > CommonLen(DirsOf(from), Segments(to)) + 1

(***************************************************************************)
(* Order of the kinds: markers of two kinds, some sharing a label.         *)
(***************************************************************************)
OrderTokens ==
    { EnvMarker("thm", None, None),
      EnvMarker("thm", Some(<<"x">>), None),
      EnvMarker("lem", Some(<<"x">>), None),
      EnvMarker("lem", Some(<<"y">>), Some("U")) }

OrderShapes(i) == {Numbered(i), Draft(i)}

InitOrder == InitWith(Books(OrderTokens, OrderShapes, MaxChapters, MaxTokens), {CfgPlain})

SpecOrder == InitOrder /\ [][Next]_vars

Reordered(f) == [i \in 1..Len(envs) |-> envs[f[i]]]

SameOutcome(f) ==
    LET res == Run(input, Reordered(f), with_prefix)
    IN  res.book = book /\ res.refs = refs

\* a label declared by markers of two kinds in one chapter
SharedInChapter ==
    \E m \in Labelled(Markers) : \E q \in Labelled(Markers) :
        /\ LabelOf(m) = LabelOf(q)
        /\ m[1] = q[1]
        /\ Tok(m).key /= Tok(q).key

(***************************************************************************)
(* C10  Order of the environment kinds.                                    *)
(***************************************************************************)
\* C10 as stated: every permutation of the list of kinds gives the same final
\* registry and the same final chapter contents.
C10_AnyOrder ==
    pc = "done" => \A f \in Permutations(1..Len(envs)) : SameOutcome(f)

\* C10 as amended: every permutation of the list of kinds gives the same final
\* registry and contents, provided no chapter holds markers of two different
\* kinds that declare the same label.
C10_OrderUnlessShared ==
    pc = "done" /\ ~SharedInChapter =>
        \A f \in Permutations(1..Len(envs)) : SameOutcome(f)

\* a finished run over a chapter with labeled markers of two kinds
C10_Witness ==
    /\ pc = "done"
    /\ ~SharedInChapter
    /\ \E m \in Labelled(Markers) : \E q \in Labelled(Markers) :
          m[1] = q[1] /\ Tok(m).key /= Tok(q).key

(***************************************************************************)
(* Configuration: every custom_environments value up to the bounds.        *)
(***************************************************************************)
ConfigValues == { TString("exa"), TString("*"), TInteger(7) }
ConfigEntries == { TString("exa") } \cup { TArray(a) : a \in SeqsUpTo(ConfigValues, MaxEntryLen) }

Configs ==
    { [prefix |-> pf, custom |-> cu] :
        <<pf, cu>> \in { None, Some(TBoolean(TRUE)), Some(TString("yes")) }
                       \X ({ None, Some(TString("exa")) }
                             \cup { Some(TArray(a)) : a \in SeqsUpTo(ConfigEntries, MaxEntries) }) }

ConfigBooks ==
    { << Chapter(<< EnvMarker("exa", Some(<<"y">>), None), RefMarker("ref:", <<"y">>) >>,
                 Some(SectionNumber(1)), Some(ChapterPath(1))) >> }

InitConfig == InitWith(ConfigBooks, Configs)

SpecConfig == InitConfig /\ [][Next]_vars

\* an entry that is an array of exactly three strings
WellFormed(entry) ==
    /\ entry.ty = "Array"
    /\ Len(entry.v) = 3
    /\ \A i \in 1..3 : entry.v[i].ty = "String"

RECURSIVE WellFormedEnvs(_)
WellFormedEnvs(array) ==
    IF array = <<>> THEN <<>>
    ELSE (IF WellFormed(Head(array))
          THEN << [key |-> Head(array).v[1].s,
                   name |-> Head(array).v[2].s,
                   emph |-> Head(array).v[3].s] >>
          ELSE <<>>) \o WellFormedEnvs(Tail(array))

ConfiguredList ==
    IF config.custom /= None /\ config.custom[1].ty = "Array" THEN config.custom[1].v ELSE <<>>

(***************************************************************************)
(* C9  Malformed configuration entries.                                    *)
(***************************************************************************)
\* C9: an entry that is not an array of exactly three strings adds no kind
\* and aborts nothing; the well-formed entries follow the five built-in
\* kinds, in their order.
C9_MalformedIgnored ==
    pc /= "new" =>
        /\ pc /= "panicked"
        /\ envs = DefaultEnvs \o WellFormedEnvs(ConfiguredList)

\* C9 apart from the abort: whenever new returns, the list of kinds is the
\* built-in ones followed by the well-formed entries (an array of more than
\* three elements that starts with three strings adds a kind all the same)
C9_KindsWhenReturned ==
    pc \notin {"new", "panicked"} => envs = DefaultEnvs \o WellFormedEnvs(ConfiguredList)

====
